---- MODULE Spec2Model ----
(***************************************************************************)
(* Model of src/src/Cli/AzureCliLogin.ts: the AzureCliLogin class, which   *)
(* drives the external `az` binary through --version, cloud set/register,  *)
(* login and account set.                                                  *)
(*                                                                         *)
(* Two asynchronous tasks exist.  The login() task is the caller's         *)
(* promise.  setAzurestackEnvIfNecessary() is an async method that login() *)
(* calls at line 38 WITHOUT await: its synchronous prefix runs inside      *)
(* login(), and everything after its first await runs as a second task     *)
(* whose promise nobody observes.  Each action below is one                *)
(* run-to-completion continuation of one task: from the settling of the    *)
(* promise it awaits up to its next await (or its end).                    *)
(*                                                                         *)
(* Strings are TLA+ strings; the template literals of the source are       *)
(* string concatenations (\o).                                             *)
(***************************************************************************)
EXTENDS Integers, Sequences, FiniteSets, TLC

VARIABLES
    loginConfig,   \* this.loginConfig (federatedToken is filled by getFederatedToken)
    azPath,        \* this.azPath
    isSuccess,     \* this.isSuccess
    pc,            \* position of the login() task
    loginError,    \* rejection reason of the promise returned by login()
    azPc,          \* position of the setAzurestackEnvIfNecessary() task
    azError,       \* rejection reason of the promise returned by setAzurestackEnvIfNecessary()
    events,        \* history: commands started / exited, token retrieval, in order
    log            \* lines written to console.log / core.debug / core.warning / core.error

vars == <<loginConfig, azPath, isSuccess, pc, loginError, azPc, azError, events, log>>

----------------------------------------------------------------------------
(* Bounds and input domains *)

\* exit codes an external command may return: 0..MaxExitCode
MaxExitCode == 1

ExitCodes == 0..MaxExitCode

Environments == {"azurecloud", "azurestack"}

AuthTypes == {"service_principal", "managed_identity"}

ServicePrincipalIds == {"", "sp-id"}

TenantIds == {"tenant-id"}

ServicePrincipalKeys == {"", "s3cret"}

ExampleUrl == "https://management.foo.azurestack.example.com/"

EndpointUrls ==
    {"", "https://management.local.azurestack.external/",
     "https://management.local.azurestack.external", ExampleUrl}

SubscriptionIds == {"", "sub-id"}

FederatedTokens == {"oidc-token"}

\* results of io.which("az", true): it throws, or yields a path (possibly empty)
WhichResults == {"throw", "", "/usr/bin/az"}

VersionOutput == "azure-cli 2.30.0"

LoginConfigs ==
    [environment : Environments,
     authType : AuthTypes,
     servicePrincipalId : ServicePrincipalIds,
     tenantId : TenantIds,
     servicePrincipalKey : ServicePrincipalKeys,
     resourceManagerEndpointUrl : EndpointUrls,
     subscriptionId : SubscriptionIds,
     allowNoSubscriptionsLogin : BOOLEAN,
     federatedToken : {""}]

----------------------------------------------------------------------------
(* String helpers (JavaScript String methods) *)

\* s.startsWith(p)
StartsWith(s, p) == Len(s) >= Len(p) /\ SubSeq(s, 1, Len(p)) = p

\* s.endsWith(p)
EndsWith(s, p) == Len(s) >= Len(p) /\ SubSeq(s, Len(s) - Len(p) + 1, Len(s)) = p

\* s.includes(p)
Includes(s, p) == \E i \in 1..(Len(s) - Len(p) + 1) : SubSeq(s, i, i + Len(p) - 1) = p

\* s.indexOf(c) for a one-character c, 0-based, -1 when absent
IndexOf(s, c) ==
    IF \E i \in 1..Len(s) : SubSeq(s, i, i) = c
    THEN (CHOOSE i \in 1..Len(s) :
            /\ SubSeq(s, i, i) = c
            /\ \A j \in 1..(i - 1) : SubSeq(s, j, j) # c) - 1
    ELSE -1

\* s.substring(from) with a 0-based from (negative values clamp to 0)
Substring(s, from) == SubSeq(s, (IF from < 0 THEN 0 ELSE from) + 1, Len(s))

\* s.substring(0, to)
SubstringTo(s, to) == SubSeq(s, 1, to)

\* `${error}` for an Error object whose message is msg
ErrorToString(msg) == "Error: " \o msg

----------------------------------------------------------------------------
(* Events *)

StartEvent(args, silent, task) == [ev |-> "start", args |-> args, silent |-> silent, task |-> task]

ExitEvent(args, code) == [ev |-> "exit", args |-> args, code |-> code]

TokenEvent(ok, token) == [ev |-> "getFederatedToken", ok |-> ok, token |-> token]

Logged(level, msg) == [level |-> level, msg |-> msg]

\* the rejection reason of exec.exec for a non-zero exit code
ExecError(path, code) == "The process '" \o path \o "' failed with exit code " \o ToString(code)

----------------------------------------------------------------------------
Init ==
    /\ loginConfig \in LoginConfigs
    /\ azPath = ""
    /\ isSuccess = FALSE
    /\ pc = "start"
    /\ loginError = ""
    /\ azPc = "notcalled"
    /\ azError = ""
    /\ events = <<>>
    /\ log = <<>>

----------------------------------------------------------------------------
(* Argument and message construction *)

\* login(): the base argument set of the service_principal branch
ServicePrincipalArgs(cfg) ==
    <<"--service-principal", "--username", cfg.servicePrincipalId, "--tenant", cfg.tenantId>>

\* login(): the base argument set of the managed-identity branch
IdentityArgs == <<"--identity">>

\* variant: the secret pushed as a separate entry after a bare --password flag
loginWithSecretArgsSplit(args, cfg) == args \o <<"--password", cfg.servicePrincipalKey>>

\* loginWithSecret: args.push(`--password=${servicePrincipalKey}`)
loginWithSecretArgs(args, cfg) == Append(args, "--password=" \o cfg.servicePrincipalKey)

\* variant: the flag pushed without the token
loginWithOIDCArgsNoToken(args, cfg) == Append(args, "--federated-token")

\* loginWithOIDC: args.push("--federated-token", federatedToken)
loginWithOIDCArgs(args, cfg) == args \o <<"--federated-token", cfg.federatedToken>>

\* loginWithUserAssignedIdentity: args.push("--username", servicePrincipalId)
loginWithUserAssignedIdentityArgs(args, cfg) == args \o <<"--username", cfg.servicePrincipalId>>

\* variant: the user-assigned push copied into the system-assigned branch
loginWithSystemAssignedIdentityArgsUsername(args, cfg) == args \o <<"--username", cfg.servicePrincipalId>>

\* loginWithSystemAssignedIdentity: args are passed on unchanged
loginWithSystemAssignedIdentityArgs(args, cfg) == args

\* callCliLogin: args.unshift("login"); optional push of --allow-no-subscriptions
callCliLoginArgs(args, cfg) ==
    <<"login">> \o args \o
        (IF cfg.allowNoSubscriptionsLogin THEN <<"--allow-no-subscriptions">> ELSE <<>>)

\* variant: the catch block drops the underlying error from its message
LoginFailedErrorNoCause(error) ==
    "Azure CLI login failed: Please check the credentials and auth-type. For more information refer https://github.com/Azure/login#readme"

\* callCliLogin: the message of the Error thrown by its catch block
LoginFailedError(error) ==
    "Azure CLI login failed: " \o ErrorToString(error) \o
    " Please check the credentials and auth-type. For more information refer https://github.com/Azure/login#readme"

\* variant: getFederatedToken awaited inside callCliLogin's try block
loginWithOIDCRejectionWrapped(error) == LoginFailedError(error)

\* loginWithOIDC, line 109: a rejection of getFederatedToken() leaves
\* loginWithOIDC and login() unchanged (no try block surrounds the await)
loginWithOIDCRejection(error) == error

\* callCliLogin: the line logged before the attempt
AttemptingLine(methodName) == "Attempting Azure CLI login by using " \o methodName \o "..."

\* callCliLogin: the line logged after success
SucceedLine(methodName) == "Azure CLI login succeed by using " \o methodName \o "."

\* the methodName each branch passes to callCliLogin
MethodName(cfg) ==
    IF cfg.authType = "service_principal"
    THEN IF cfg.servicePrincipalKey # "" THEN "service principal with secret" ELSE "OIDC"
    ELSE IF cfg.servicePrincipalId # "" THEN "user-assigned managed identity"
         ELSE "system-assigned managed identity"

MethodNames ==
    {"service principal with secret", "OIDC",
     "user-assigned managed identity", "system-assigned managed identity"}

\* login(): the arguments each branch hands to callCliLogin
BranchArgs(cfg) ==
    IF cfg.authType = "service_principal"
    THEN IF cfg.servicePrincipalKey # ""
         THEN loginWithSecretArgs(ServicePrincipalArgs(cfg), cfg)
         ELSE loginWithOIDCArgs(ServicePrincipalArgs(cfg), cfg)
    ELSE IF cfg.servicePrincipalId # ""
         THEN loginWithUserAssignedIdentityArgs(IdentityArgs, cfg)
         ELSE loginWithSystemAssignedIdentityArgs(IdentityArgs, cfg)

\* variant: the allowNoSubscriptionsLogin test is missing
setSubscriptionIgnoresAllow(cfg) ==
    IF cfg.subscriptionId = "" THEN "warn" ELSE "set"

\* variant: an empty subscriptionId is not tested, `account set` is started anyway
setSubscriptionNoEmptyTest(cfg) ==
    IF cfg.allowNoSubscriptionsLogin THEN "return" ELSE "set"

\* variant: a configured subscriptionId is only warned about, never set
setSubscriptionNeverSets(cfg) ==
    IF cfg.allowNoSubscriptionsLogin THEN "return" ELSE "warn"

\* setSubscription, lines 141-148: return at once, warn and return, or go on
\* to start `account set`
setSubscription(cfg) ==
    IF cfg.allowNoSubscriptionsLogin THEN "return"
    ELSE IF cfg.subscriptionId = "" THEN "warn"
    ELSE "set"

\* setSubscription: the account set command
SubscriptionArgs(cfg) == <<"account", "set", "--subscription", cfg.subscriptionId>>

VersionArgs == <<"--version">>

\* login(): cloud set -n <environment>
CloudSetArgs(cfg) == <<"cloud", "set", "-n", cfg.environment>>

\* setAzurestackEnvIfNecessary: reset to the default cloud
ResetArgs == <<"cloud", "set", "-n", "AzureCloud">>

\* setAzurestackEnvIfNecessary: unregister a previous registration
UnregisterArgs(cfg) == <<"cloud", "unregister", "-n", cfg.environment>>

\* variant: the trailing / is not removed
BaseUriNoStrip(url) == url

\* setAzurestackEnvIfNecessary: baseUri with a trailing / removed
BaseUri(url) == IF EndsWith(url, "/") THEN SubstringTo(url, Len(url) - 1) ELSE url

\* setAzurestackEnvIfNecessary: ".vault" + baseUri.substring(baseUri.indexOf('.'))
SuffixKeyvault(url) == ".vault" \o Substring(BaseUri(url), IndexOf(BaseUri(url), "."))

\* setAzurestackEnvIfNecessary: baseUri.substring(baseUri.indexOf('.') + 1)
SuffixStorage(url) == Substring(BaseUri(url), IndexOf(BaseUri(url), ".") + 1)

ProfileVersion == "2019-03-01-hybrid"

Quoted(s) == "\"" \o s \o "\""

\* setAzurestackEnvIfNecessary: the cloud register command
RegisterArgs(cfg) ==
    <<"cloud", "register", "-n", cfg.environment,
      "--endpoint-resource-manager", Quoted(cfg.resourceManagerEndpointUrl),
      "--suffix-keyvault-dns", Quoted(SuffixKeyvault(cfg.resourceManagerEndpointUrl)),
      "--suffix-storage-endpoint", Quoted(SuffixStorage(cfg.resourceManagerEndpointUrl)),
      "--profile", Quoted(ProfileVersion)>>

ConfigurationError == "resourceManagerEndpointUrl is a required parameter when environment is defined."

ToolNotFound == "Azure CLI is not found in the runner."

\* the Error io.which(tool, true) throws when the tool is not on the path
WhichError == "Unable to locate executable file: az. Please verify either the file path exists or the file can be found within a directory specified by the PATH environment variable. Also check the file mode to verify the file is executable."

TokenRetrievalFailure == "Failed to fetch federated token from GitHub."

NoSubscriptionWarning == "No subscription-id is given. Skip setting subscription... If there are mutiple subscriptions under the tenant, please input subscription-id to specify which subscription to use."

----------------------------------------------------------------------------
(* The two blocks of setAzurestackEnvIfNecessary that start commands *)

\* lines 83-92: log and start `cloud register`
RegisterStart(cfg) ==
    [events |-> <<StartEvent(RegisterArgs(cfg), FALSE, "azurestack")>>,
     log |-> <<Logged("info", "Registering cloud: \"" \o cfg.environment \o "\" with ARM endpoint: \""
                               \o cfg.resourceManagerEndpointUrl \o "\"")>>]

\* lines 79-81: the catch block that swallows a reset / unregister failure
IgnoreLine(error) == Logged("info", "Ignore cloud not registered error: \"" \o ErrorToString(error) \o "\"")

\* lines 66-76: what the call of setAzurestackEnvIfNecessary() does before
\* its first await, i.e. synchronously inside login()
SetAzurestackPrefix(cfg) ==
    IF cfg.environment # "azurestack"
    THEN [azPc |-> "resolved", azError |-> "", events |-> <<>>, log |-> <<>>]
    ELSE IF cfg.resourceManagerEndpointUrl = ""
    THEN [azPc |-> "rejected", azError |-> ConfigurationError, events |-> <<>>, log |-> <<>>]
    ELSE [azPc |-> "reset", azError |-> "",
          events |-> <<StartEvent(ResetArgs, TRUE, "azurestack")>>,
          log |-> <<Logged("info", "Unregistering cloud: \"" \o cfg.environment \o "\" first if it exists")>>]

----------------------------------------------------------------------------
(* The login() task *)

\* lines 19-20: login() is called and awaits io.which("az", true)
Login ==
    /\ pc = "start"
    /\ pc' = "which"
    /\ UNCHANGED <<loginConfig, azPath, isSuccess, loginError, azPc, azError, events, log>>

\* variant: the `if (!this.azPath)` test is missing, an empty path is used
AfterWhichNoPathTest ==
    /\ pc = "which"
    /\ \E r \in WhichResults :
        IF r = "throw"
        THEN /\ pc' = "rejected"
             /\ loginError' = WhichError
             /\ UNCHANGED <<azPath, events, log>>
        ELSE /\ azPath' = r
             /\ log' = Append(log, Logged("debug", "Azure CLI path: " \o r))
             /\ events' = Append(events, StartEvent(VersionArgs, TRUE, "login"))
             /\ pc' = "version"
             /\ UNCHANGED loginError
    /\ UNCHANGED <<loginConfig, isSuccess, azPc, azError>>

\* lines 20-35: io.which settles; the path is checked and --version started
AfterWhich ==
    /\ pc = "which"
    /\ \E r \in WhichResults :
        IF r = "throw"
        THEN /\ pc' = "rejected"
             /\ loginError' = WhichError
             /\ UNCHANGED <<azPath, events, log>>
        ELSE IF r = ""
        THEN /\ azPath' = r
             /\ pc' = "rejected"
             /\ loginError' = ToolNotFound
             /\ UNCHANGED <<events, log>>
        ELSE /\ azPath' = r
             /\ log' = Append(log, Logged("debug", "Azure CLI path: " \o r))
             /\ events' = Append(events, StartEvent(VersionArgs, TRUE, "login"))
             /\ pc' = "version"
             /\ UNCHANGED loginError
    /\ UNCHANGED <<loginConfig, isSuccess, azPc, azError>>

\* lines 35-40: --version exits; on success setAzurestackEnvIfNecessary() is
\* called WITHOUT await (line 38), so only its synchronous prefix runs here
\* and login() goes straight on to start `cloud set -n <environment>`
AfterVersion ==
    /\ pc = "version"
    /\ \E code \in ExitCodes :
        IF code # 0
        THEN /\ events' = Append(events, ExitEvent(VersionArgs, code))
             /\ pc' = "rejected"
             /\ loginError' = ExecError(azPath, code)
             /\ UNCHANGED <<azPc, azError, log>>
        ELSE LET pre == SetAzurestackPrefix(loginConfig) IN
             /\ azPc' = pre.azPc
             /\ azError' = pre.azError
             /\ events' = (Append(events, ExitEvent(VersionArgs, code)) \o pre.events)
                              \o <<StartEvent(CloudSetArgs(loginConfig), FALSE, "login")>>
             /\ log' = Append(log, Logged("debug", "Azure CLI version used:\n" \o VersionOutput)) \o pre.log
             /\ pc' = "cloudset"
             /\ UNCHANGED loginError
    /\ UNCHANGED <<loginConfig, azPath, isSuccess>>

\* lines 40-63 and 102-130: `cloud set` exits; on success the branch is
\* chosen: three branches start the login command, the OIDC branch first
\* awaits getFederatedToken()
AfterCloudSet ==
    /\ pc = "cloudset"
    /\ \E code \in ExitCodes :
        LET ev == Append(events, ExitEvent(CloudSetArgs(loginConfig), code))
            doneLine == Logged("info", "Done setting cloud: \"" \o loginConfig.environment \o "\"")
            noteLine == Logged("info", "Note: Azure/login action also supports OIDC login mechanism. Refer https://github.com/azure/login#configure-a-service-principal-with-a-federated-credential-to-use-oidc-based-authentication for more details.")
        IN
        IF code # 0
        THEN /\ events' = ev
             /\ pc' = "rejected"
             /\ loginError' = ExecError(azPath, code)
             /\ UNCHANGED log
        ELSE IF MethodName(loginConfig) = "OIDC"
        THEN /\ events' = ev
             /\ log' = Append(log, doneLine)
             /\ pc' = "token"
             /\ UNCHANGED loginError
        ELSE /\ events' = Append(ev, StartEvent(callCliLoginArgs(BranchArgs(loginConfig), loginConfig), TRUE, "login"))
             /\ log' = (Append(log, doneLine)
                          \o (IF MethodName(loginConfig) = "service principal with secret"
                              THEN <<noteLine>> ELSE <<>>))
                          \o <<Logged("info", AttemptingLine(MethodName(loginConfig)))>>
             /\ pc' = "cliLogin"
             /\ UNCHANGED loginError
    /\ UNCHANGED <<loginConfig, azPath, isSuccess, azPc, azError>>

\* lines 109-111 and 124-130: getFederatedToken() settles; a failure
\* propagates unchanged (it is outside callCliLogin's try), a success fills
\* loginConfig.federatedToken and the login command is started
AfterGetFederatedToken ==
    /\ pc = "token"
    /\ \/ /\ events' = Append(events, TokenEvent(FALSE, ""))
          /\ pc' = "rejected"
          /\ loginError' = loginWithOIDCRejection(TokenRetrievalFailure)
          /\ UNCHANGED <<loginConfig, log>>
       \/ \E token \in FederatedTokens :
            LET cfg == [loginConfig EXCEPT !.federatedToken = token] IN
            /\ loginConfig' = cfg
            /\ events' = Append(events, TokenEvent(TRUE, token))
                            \o <<StartEvent(callCliLoginArgs(BranchArgs(cfg), cfg), TRUE, "login")>>
            /\ log' = Append(log, Logged("info", AttemptingLine(MethodName(cfg))))
            /\ pc' = "cliLogin"
            /\ UNCHANGED loginError
    /\ UNCHANGED <<azPath, isSuccess, azPc, azError>>

\* variant: isSuccess is set before setSubscription() is awaited
AfterCliLoginFlagFirst ==
    /\ pc = "cliLogin"
    /\ \E code \in ExitCodes :
        LET ev == Append(events, ExitEvent(callCliLoginArgs(BranchArgs(loginConfig), loginConfig), code))
            okLine == Logged("info", SucceedLine(MethodName(loginConfig)))
        IN
        IF code # 0
        THEN /\ events' = ev
             /\ pc' = "rejected"
             /\ loginError' = LoginFailedError(ExecError(azPath, code))
             /\ UNCHANGED <<isSuccess, log>>
        ELSE IF setSubscription(loginConfig) = "return"
        THEN /\ events' = ev
             /\ isSuccess' = TRUE
             /\ log' = Append(log, okLine)
             /\ pc' = "fulfilled"
             /\ UNCHANGED loginError
        ELSE IF setSubscription(loginConfig) = "warn"
        THEN /\ events' = ev
             /\ isSuccess' = TRUE
             /\ log' = Append(log, Logged("warning", NoSubscriptionWarning)) \o <<okLine>>
             /\ pc' = "fulfilled"
             /\ UNCHANGED loginError
        ELSE /\ events' = Append(ev, StartEvent(SubscriptionArgs(loginConfig), TRUE, "login"))
             /\ pc' = "account"
             /\ isSuccess' = TRUE
             /\ UNCHANGED <<loginError, log>>
    /\ UNCHANGED <<loginConfig, azPath, azPc, azError>>

\* lines 130-137 and 140-149: the login command exits; a failure is wrapped
\* by the catch block; on success setSubscription() returns at once, or
\* warns and returns, or starts `account set`
AfterCliLogin ==
    /\ pc = "cliLogin"
    /\ \E code \in ExitCodes :
        LET ev == Append(events, ExitEvent(callCliLoginArgs(BranchArgs(loginConfig), loginConfig), code))
            okLine == Logged("info", SucceedLine(MethodName(loginConfig)))
        IN
        IF code # 0
        THEN /\ events' = ev
             /\ pc' = "rejected"
             /\ loginError' = LoginFailedError(ExecError(azPath, code))
             /\ UNCHANGED <<isSuccess, log>>
        ELSE IF setSubscription(loginConfig) = "return"
        THEN /\ events' = ev
             /\ isSuccess' = TRUE
             /\ log' = Append(log, okLine)
             /\ pc' = "fulfilled"
             /\ UNCHANGED loginError
        ELSE IF setSubscription(loginConfig) = "warn"
        THEN /\ events' = ev
             /\ isSuccess' = TRUE
             /\ log' = Append(log, Logged("warning", NoSubscriptionWarning)) \o <<okLine>>
             /\ pc' = "fulfilled"
             /\ UNCHANGED loginError
        ELSE /\ events' = Append(ev, StartEvent(SubscriptionArgs(loginConfig), TRUE, "login"))
             /\ pc' = "account"
             /\ UNCHANGED <<isSuccess, loginError, log>>
    /\ UNCHANGED <<loginConfig, azPath, azPc, azError>>

\* lines 149-150 and 131-137: `account set` exits; failure is wrapped by
\* callCliLogin's catch block, success sets isSuccess
AfterSetSubscription ==
    /\ pc = "account"
    /\ \E code \in ExitCodes :
        LET ev == Append(events, ExitEvent(SubscriptionArgs(loginConfig), code)) IN
        IF code # 0
        THEN /\ events' = ev
             /\ pc' = "rejected"
             /\ loginError' = LoginFailedError(ExecError(azPath, code))
             /\ UNCHANGED <<isSuccess, log>>
        ELSE /\ events' = ev
             /\ isSuccess' = TRUE
             /\ log' = Append(log, Logged("info", "Subscription is set successfully."))
                          \o <<Logged("info", SucceedLine(MethodName(loginConfig)))>>
             /\ pc' = "fulfilled"
             /\ UNCHANGED loginError
    /\ UNCHANGED <<loginConfig, azPath, azPc, azError>>

----------------------------------------------------------------------------
(* The setAzurestackEnvIfNecessary() task, after its first await.  Nothing *)
(* in login() waits for it, so its steps interleave with login()'s and go  *)
(* on after login() has settled.                                           *)

\* variant: no try/catch around the reset, its failure rejects the task
AfterResetRethrow ==
    /\ azPc = "reset"
    /\ \E code \in ExitCodes :
        LET ev == Append(events, ExitEvent(ResetArgs, code)) IN
        IF code = 0
        THEN /\ events' = Append(ev, StartEvent(UnregisterArgs(loginConfig), FALSE, "azurestack"))
             /\ azPc' = "unregister"
             /\ UNCHANGED <<log, azError>>
        ELSE /\ events' = ev
             /\ azPc' = "rejected"
             /\ azError' = ExecError(azPath, code)
             /\ UNCHANGED log
    /\ UNCHANGED <<loginConfig, azPath, isSuccess, pc, loginError>>

\* variant: reset and unregister in separate try blocks, so unregister is
\* started whatever the reset's exit code
AfterResetThenUnregister ==
    /\ azPc = "reset"
    /\ \E code \in ExitCodes :
        /\ events' = Append(Append(events, ExitEvent(ResetArgs, code)),
                            StartEvent(UnregisterArgs(loginConfig), FALSE, "azurestack"))
        /\ log' = IF code = 0 THEN log ELSE Append(log, IgnoreLine(ExecError(azPath, code)))
        /\ azPc' = "unregister"
    /\ UNCHANGED <<loginConfig, azPath, isSuccess, pc, loginError, azError>>

\* lines 76-92: the reset command exits; success starts `cloud unregister`,
\* failure jumps to the catch block and on to `cloud register`
AfterReset ==
    /\ azPc = "reset"
    /\ \E code \in ExitCodes :
        LET ev == Append(events, ExitEvent(ResetArgs, code))
            reg == RegisterStart(loginConfig)
        IN
        IF code = 0
        THEN /\ events' = Append(ev, StartEvent(UnregisterArgs(loginConfig), FALSE, "azurestack"))
             /\ azPc' = "unregister"
             /\ UNCHANGED log
        ELSE /\ events' = ev \o reg.events
             /\ log' = Append(log, IgnoreLine(ExecError(azPath, code))) \o reg.log
             /\ azPc' = "register"
    /\ UNCHANGED <<loginConfig, azPath, isSuccess, pc, loginError, azError>>

\* lines 77-92: `cloud unregister` exits; a failure is swallowed by the
\* catch block; either way `cloud register` is started
AfterUnregister ==
    /\ azPc = "unregister"
    /\ \E code \in ExitCodes :
        LET ev == Append(events, ExitEvent(UnregisterArgs(loginConfig), code))
            reg == RegisterStart(loginConfig)
        IN
        /\ events' = ev \o reg.events
        /\ log' = (IF code = 0 THEN log ELSE Append(log, IgnoreLine(ExecError(azPath, code)))) \o reg.log
        /\ azPc' = "register"
    /\ UNCHANGED <<loginConfig, azPath, isSuccess, pc, loginError, azError>>

\* lines 92-99: `cloud register` exits; a failure is logged and rethrown,
\* which rejects the promise that login() dropped
AfterRegister ==
    /\ azPc = "register"
    /\ \E code \in ExitCodes :
        LET ev == Append(events, ExitEvent(RegisterArgs(loginConfig), code)) IN
        IF code = 0
        THEN /\ events' = ev
             /\ log' = Append(log, Logged("info", "Done registering cloud: \"" \o loginConfig.environment \o "\""))
             /\ azPc' = "resolved"
             /\ UNCHANGED azError
        ELSE /\ events' = ev
             /\ log' = Append(log, Logged("error", "Error while trying to register cloud \"" \o loginConfig.environment \o "\""))
             /\ azPc' = "rejected"
             /\ azError' = ExecError(azPath, code)
    /\ UNCHANGED <<loginConfig, azPath, isSuccess, pc, loginError>>

----------------------------------------------------------------------------
Next ==
    \/ Login
    \/ AfterWhich
    \/ AfterVersion
    \/ AfterCloudSet
    \/ AfterGetFederatedToken
    \/ AfterCliLogin
    \/ AfterSetSubscription
    \/ AfterReset
    \/ AfterUnregister
    \/ AfterRegister

Spec == Init /\ [][Next]_vars

\* every awaited promise settles: io.which, getFederatedToken and each
\* external command terminate, and the continuation awaiting it then runs
Fairness ==
    /\ WF_vars(Login)
    /\ WF_vars(AfterWhich)
    /\ WF_vars(AfterVersion)
    /\ WF_vars(AfterCloudSet)
    /\ WF_vars(AfterGetFederatedToken)
    /\ WF_vars(AfterCliLogin)
    /\ WF_vars(AfterSetSubscription)
    /\ WF_vars(AfterReset)
    /\ WF_vars(AfterUnregister)
    /\ WF_vars(AfterRegister)

FairSpec == Spec /\ Fairness

TypeOK ==
    /\ loginConfig \in [environment : Environments, authType : AuthTypes,
                        servicePrincipalId : ServicePrincipalIds, tenantId : TenantIds,
                        servicePrincipalKey : ServicePrincipalKeys,
                        resourceManagerEndpointUrl : EndpointUrls,
                        subscriptionId : SubscriptionIds,
                        allowNoSubscriptionsLogin : BOOLEAN,
                        federatedToken : FederatedTokens \cup {""}]
    /\ isSuccess \in BOOLEAN
    /\ pc \in {"start", "which", "version", "cloudset", "token", "cliLogin", "account", "fulfilled", "rejected"}
    /\ azPc \in {"notcalled", "reset", "unregister", "register", "resolved", "rejected"}

----------------------------------------------------------------------------
(* Reading the history *)

Idx == DOMAIN events

IsStart(i) == events[i].ev = "start"

IsExit(i) == events[i].ev = "exit"

IsLoginCommand(i) == IsStart(i) /\ events[i].args[1] = "login"

IsCloudCommand(i) == IsStart(i) /\ events[i].args[1] = "cloud"

IsAccountSet(i) == IsStart(i) /\ events[i].args[1] = "account"

StartedAt(i, args) == IsStart(i) /\ events[i].args = args

\* the command args exited with code at position i
ExitedAt(i, args, code) == IsExit(i) /\ events[i].args = args /\ events[i].code = code

Succeeded(args) == \E i \in Idx : ExitedAt(i, args, 0)

Failed(args) == \E i \in Idx : IsExit(i) /\ events[i].args = args /\ events[i].code # 0

\* positions of the commands that have started and not yet exited
InFlight == {i \in Idx : IsStart(i) /\ ~ \E j \in Idx : j > i /\ IsExit(j) /\ events[j].args = events[i].args}

Settled == pc \in {"fulfilled", "rejected"}

Azurestack == loginConfig.environment = "azurestack"

\* the arguments of the login command of this run
LoginArgs == callCliLoginArgs(BranchArgs(loginConfig), loginConfig)

Contains(args, flag) == \E k \in DOMAIN args : args[k] = flag

HasPasswordEntry(args) == \E k \in DOMAIN args : StartsWith(args[k], "--password=")

----------------------------------------------------------------------------
(* Claims *)

\* C1: with environment = "azurestack" and an empty resourceManagerEndpointUrl
\* no login command is ever started, and when login() settles it has failed
\* with the configuration error.
C1_ConfigurationErrorBeforeLogin ==
    (Azurestack /\ loginConfig.resourceManagerEndpointUrl = "") =>
        /\ \A i \in Idx : ~ IsLoginCommand(i)
        /\ Settled => (pc = "rejected" /\ loginError = ConfigurationError)

\* C2: at most one external command is in flight in every reachable state.
C2_AtMostOneInFlight == Cardinality(InFlight) <= 1

\* C3: once `cloud register` has exited with failure, the login command has
\* not been and is not started, isSuccess is false, and login() when settled
\* has failed with the register command's error.
C3_RegisterFailureIsFatal ==
    (Azurestack /\ Failed(RegisterArgs(loginConfig))) =>
        /\ \A i \in Idx : ~ IsLoginCommand(i)
        /\ ~ isSuccess
        /\ Settled => (pc = "rejected" /\ loginError = azError)

\* C4, first part: every cloud command starts after --version has exited.
C4_VersionBeforeCloud ==
    \A i \in Idx : IsCloudCommand(i) => \E j \in Idx : j < i /\ IsExit(j) /\ events[j].args = VersionArgs

\* C4, second part: with environment = "azurestack", `cloud set -n
\* <environment>` and the login command start only after `cloud register`
\* has exited successfully.
C4_RegisterBeforeCloudSet ==
    Azurestack =>
        \A i \in Idx : (StartedAt(i, CloudSetArgs(loginConfig)) \/ IsLoginCommand(i)) =>
            \E j \in Idx : j < i /\ ExitedAt(j, RegisterArgs(loginConfig), 0)

\* C4, third part: `account set` starts only after the login command has
\* exited successfully.
C4_LoginBeforeAccountSet ==
    \A i \in Idx : IsAccountSet(i) => \E j \in Idx : j < i /\ ExitedAt(j, LoginArgs, 0)

\* C4: the steps run in strict order, each completing before the next begins.
C4_StrictOrder == C4_VersionBeforeCloud /\ C4_RegisterBeforeCloudSet /\ C4_LoginBeforeAccountSet

C6_SuccessOnlyOnFullSuccess ==
    /\ isSuccess =>
        /\ Succeeded(VersionArgs)
        /\ Succeeded(CloudSetArgs(loginConfig))
        /\ Azurestack => Succeeded(RegisterArgs(loginConfig))
        /\ Succeeded(LoginArgs)
        /\ \/ Succeeded(SubscriptionArgs(loginConfig))
           \/ loginConfig.allowNoSubscriptionsLogin
           \/ loginConfig.subscriptionId = ""
    /\ pc = "rejected" => ~ isSuccess

\* C7: the login command is started at most once and with the arguments of
\* exactly one method, no argument vector is started twice, and after a
\* failure of any command other than reset / unregister no command starts.
C7_NoRetryAbortOnFailure ==
    /\ \A i, j \in Idx : (IsLoginCommand(i) /\ IsLoginCommand(j)) => i = j
    /\ \A i \in Idx : IsLoginCommand(i) => events[i].args = LoginArgs
    /\ \A i, j \in Idx : (IsStart(i) /\ IsStart(j) /\ events[i].args = events[j].args) => i = j
    /\ \A i \in Idx :
        (IsExit(i) /\ events[i].code # 0
            /\ events[i].args \notin {ResetArgs, UnregisterArgs(loginConfig)}) =>
                \A j \in Idx : j > i => ~ IsStart(j)

SecretBranch == loginConfig.authType = "service_principal" /\ loginConfig.servicePrincipalKey # ""

\* C8: with authType = service_principal and a non-empty secret, the login
\* command's arguments contain --service-principal, --username, --tenant and
\* an entry starting with --password=, never --federated-token, and
\* getFederatedToken is not called.
C8_SecretArgs ==
    SecretBranch =>
        /\ \A i \in Idx : IsLoginCommand(i) =>
            /\ Contains(events[i].args, "--service-principal")
            /\ Contains(events[i].args, "--username")
            /\ Contains(events[i].args, "--tenant")
            /\ HasPasswordEntry(events[i].args)
            /\ ~ Contains(events[i].args, "--federated-token")
        /\ \A i \in Idx : events[i].ev # "getFederatedToken"

C8_Witness == SecretBranch /\ \E i \in Idx : IsLoginCommand(i)

OIDCBranch == loginConfig.authType = "service_principal" /\ loginConfig.servicePrincipalKey = ""

\* C9: with authType = service_principal and an empty secret, the login
\* command starts after the federated token was retrieved, its arguments
\* contain --federated-token followed by that token, and no entry starts
\* with --password=.
C9_OIDCArgs ==
    OIDCBranch =>
        \A i \in Idx : IsLoginCommand(i) =>
            /\ \E j \in Idx :
                /\ j < i
                /\ events[j].ev = "getFederatedToken"
                /\ events[j].ok
                /\ events[j].token \in FederatedTokens
                /\ \E k \in 1..(Len(events[i].args) - 1) :
                    /\ events[i].args[k] = "--federated-token"
                    /\ events[i].args[k + 1] = events[j].token
            /\ ~ HasPasswordEntry(events[i].args)

C9_Witness == OIDCBranch /\ \E i \in Idx : IsLoginCommand(i)

IdentityBranch == loginConfig.authType # "service_principal"

\* C10: with authType other than service_principal, a non-empty identifier
\* gives login arguments with --identity and --username; an empty
\* identifier gives --identity as the only authentication argument, with no
\* --username, --service-principal, --tenant, --password= or
\* --federated-token.
C10_IdentityArgs ==
    IdentityBranch =>
        \A i \in Idx : IsLoginCommand(i) =>
            IF loginConfig.servicePrincipalId # ""
            THEN /\ Contains(events[i].args, "--identity")
                 /\ Contains(events[i].args, "--username")
            ELSE /\ Contains(events[i].args, "--identity")
                 /\ \A f \in {"--username", "--service-principal", "--tenant", "--federated-token"} :
                        ~ Contains(events[i].args, f)
                 /\ ~ HasPasswordEntry(events[i].args)
                 /\ \A k \in DOMAIN events[i].args :
                        events[i].args[k] \in {"login", "--identity", "--allow-no-subscriptions"}

C10_Witness ==
    /\ IdentityBranch
    /\ loginConfig.servicePrincipalId = ""
    /\ loginConfig.allowNoSubscriptionsLogin
    /\ \E i \in Idx : IsLoginCommand(i)

AllowNoSubscriptions == loginConfig.allowNoSubscriptionsLogin

\* C11: with allowNoSubscriptionsLogin = true, `account set` is never
\* started, whatever the subscription id and the authentication branch.
C11_NoAccountSetWhenAllowed ==
    AllowNoSubscriptions => \A i \in Idx : ~ IsAccountSet(i)

C11_Witness ==
    /\ AllowNoSubscriptions
    /\ loginConfig.subscriptionId # ""
    /\ pc = "fulfilled"

NoSubscriptionGiven == loginConfig.subscriptionId = "" /\ ~ loginConfig.allowNoSubscriptionsLogin

\* C12: with an empty subscriptionId and allowNoSubscriptionsLogin = false,
\* `account set` is never started, and once the login command has succeeded
\* the warning has been emitted and login() has fulfilled with isSuccess set.
C12_WarnAndSucceed ==
    NoSubscriptionGiven =>
        /\ \A i \in Idx : ~ IsAccountSet(i)
        /\ Succeeded(LoginArgs) =>
            /\ \E k \in DOMAIN log : log[k] = Logged("warning", NoSubscriptionWarning)
            /\ pc = "fulfilled"
            /\ isSuccess

C12_Witness == NoSubscriptionGiven /\ Succeeded(LoginArgs) /\ isSuccess

\* the entry that follows flag in args ("" when flag is absent or last)
ValueOf(args, flag) ==
    IF \E k \in 1..(Len(args) - 1) : args[k] = flag
    THEN args[(CHOOSE k \in 1..(Len(args) - 1) : args[k] = flag) + 1]
    ELSE ""

IsRegister(i) == IsStart(i) /\ events[i].args[1] = "cloud" /\ events[i].args[2] = "register"

\* C13 (as claimed): for the base URI
\* https://management.foo.azurestack.example.com/ the vault suffix passed to
\* `cloud register` is .vault.azurestack.example.com and the storage suffix
\* is azurestack.example.com.
C13_ExampleSuffixes ==
    loginConfig.resourceManagerEndpointUrl = ExampleUrl =>
        \A i \in Idx : IsRegister(i) =>
            /\ ValueOf(events[i].args, "--suffix-keyvault-dns") = Quoted(".vault.azurestack.example.com")
            /\ ValueOf(events[i].args, "--suffix-storage-endpoint") = Quoted("azurestack.example.com")

\* C13 (amended): every `cloud register` passes, in double quotes, the vault
\* suffix ".vault" followed by the part of the URI (trailing / stripped)
\* from its first "." onward, and the storage suffix that is the part after
\* that first "."; for https://management.foo.azurestack.example.com/ these
\* are .vault.foo.azurestack.example.com and foo.azurestack.example.com.
C13_SuffixesFromFirstDot ==
    \A i \in Idx : IsRegister(i) =>
        LET url == loginConfig.resourceManagerEndpointUrl
            vault == ValueOf(events[i].args, "--suffix-keyvault-dns")
            storage == ValueOf(events[i].args, "--suffix-storage-endpoint")
        IN
        /\ \E n \in 0..1 : \E k \in 1..(Len(url) - n) :
            LET b == SubSeq(url, 1, Len(url) - n) IN
            /\ n = 1 <=> SubSeq(url, Len(url), Len(url)) = "/"
            /\ SubSeq(b, k, k) = "."
            /\ \A j \in 1..(k - 1) : SubSeq(b, j, j) # "."
            /\ vault = "\"" \o ".vault" \o SubSeq(b, k, Len(b)) \o "\""
            /\ storage = "\"" \o SubSeq(b, k + 1, Len(b)) \o "\""
        /\ url = ExampleUrl =>
            /\ vault = "\".vault.foo.azurestack.example.com\""
            /\ storage = "\"foo.azurestack.example.com\""

C13_Witness ==
    /\ loginConfig.resourceManagerEndpointUrl = ExampleUrl
    /\ \E i \in Idx : IsRegister(i)

AzurestackWithUrl == Azurestack /\ loginConfig.resourceManagerEndpointUrl # ""

\* a failure of args at position i was logged by the catch block and
\* `cloud register` was started after it
SwallowedAt(i) ==
    /\ \E k \in DOMAIN log : log[k] = IgnoreLine(ExecError(azPath, events[i].code))
    /\ \E j \in Idx : j > i /\ StartedAt(j, RegisterArgs(loginConfig))
    /\ azPc # "rejected" \/ Failed(RegisterArgs(loginConfig))

\* C14: with environment = "azurestack" and a non-empty endpoint URL, a
\* failure of the reset command or of `cloud unregister` is swallowed and
\* logged, and `cloud register` is started after it.
C14_UnregisterFailureSwallowed ==
    AzurestackWithUrl =>
        \A i \in Idx :
            (IsExit(i) /\ events[i].code # 0
                /\ events[i].args \in {ResetArgs, UnregisterArgs(loginConfig)}) => SwallowedAt(i)

C14_Witness ==
    /\ AzurestackWithUrl
    /\ Failed(ResetArgs) \/ Failed(UnregisterArgs(loginConfig))
    /\ \E j \in Idx : StartedAt(j, RegisterArgs(loginConfig))

\* C15: if the binary is not resolved login() fails with no command started;
\* if --version exits with failure login() fails and no cloud, login or
\* account command is ever started.
C15_ToolAndVersionFatal ==
    /\ (azPath = "" /\ pc \notin {"start", "which"}) =>
        /\ pc = "rejected"
        /\ loginError \in {WhichError, ToolNotFound}
        /\ events = <<>>
    /\ Failed(VersionArgs) =>
        /\ pc = "rejected"
        /\ loginError = ExecError(azPath, events[Len(events)].code)
        /\ \A i \in Idx : IsStart(i) => events[i].args = VersionArgs

C15_Witness == pc = "rejected" /\ Failed(VersionArgs)

SubscriptionGiven == loginConfig.subscriptionId # "" /\ ~ loginConfig.allowNoSubscriptionsLogin

\* C16: with allowNoSubscriptionsLogin = false and a non-empty
\* subscriptionId, `account set --subscription <id>` is started exactly once
\* when the login command has succeeded and never before, and when it exits
\* with failure login() has failed and isSuccess is false.
C16_AccountSetOnceAndFatal ==
    SubscriptionGiven =>
        /\ \A i, j \in Idx : (IsAccountSet(i) /\ IsAccountSet(j)) => i = j
        /\ \A i \in Idx : IsAccountSet(i) =>
            /\ events[i].args = <<"account", "set", "--subscription", loginConfig.subscriptionId>>
            /\ \E j \in Idx : j < i /\ ExitedAt(j, LoginArgs, 0)
        /\ Succeeded(LoginArgs) => \E i \in Idx : IsAccountSet(i)
        /\ Failed(SubscriptionArgs(loginConfig)) => (pc = "rejected" /\ ~ isSuccess)

C16_Witness == SubscriptionGiven /\ Failed(SubscriptionArgs(loginConfig)) /\ pc = "rejected"

TokenFailed == \E i \in Idx : events[i].ev = "getFederatedToken" /\ ~ events[i].ok

\* C17: when the federated-token retrieval fails, the login command is
\* never started, isSuccess is false, and login() has failed with the
\* retrieval error itself, not with the login-failure message.
C17_TokenFailureAsIs ==
    TokenFailed =>
        /\ \A i \in Idx : ~ IsLoginCommand(i)
        /\ ~ isSuccess
        /\ pc = "rejected"
        /\ loginError = TokenRetrievalFailure
        /\ ~ StartsWith(loginError, "Azure CLI login failed")

C17_Witness == OIDCBranch /\ TokenFailed /\ pc = "rejected"

\* C18: whenever login() has settled no command is in flight, and no
\* command is started after it has settled.
C18_QuiescentWhenSettled ==
    /\ [](Settled => InFlight = {})
    /\ [][Settled => \A i \in DOMAIN events' : i > Len(events) => events'[i].ev # "start"]_vars

\* C19: login() eventually settles; when it is settled it has fulfilled
\* exactly if isSuccess is true, so a rejected login() has isSuccess false.
C19_OutcomeAgreesWithFlag ==
    /\ <>Settled
    /\ [](Settled => (pc = "fulfilled" <=> isSuccess))

C19_Witness == pc = "rejected" /\ ~ isSuccess /\ Succeeded(LoginArgs)

\* C20: with environment = "azurestack", when the reset command has failed
\* `cloud unregister` is never started while `cloud register` is; `cloud
\* unregister` starts only after the reset command has exited successfully.
C20_ResetFailureSkipsUnregister ==
    Azurestack =>
        /\ Failed(ResetArgs) =>
            /\ \A i \in Idx : ~ StartedAt(i, UnregisterArgs(loginConfig))
            /\ \E i \in Idx : StartedAt(i, RegisterArgs(loginConfig))
        /\ \A i \in Idx : StartedAt(i, UnregisterArgs(loginConfig)) =>
            \E j \in Idx : j < i /\ ExitedAt(j, ResetArgs, 0)

C20_Witness == Azurestack /\ Failed(ResetArgs) /\ azPc \in {"resolved", "rejected"}

====
